---- MODULE Spec2Model ----
(***************************************************************************)
(* Mini League (src/app.py): the payout rule, the balance accumulation,    *)
(* the Google-Sheets persistence (load_data / save_data) and the two-step  *)
(* data-entry flow, as a state machine.                                    *)
(*                                                                         *)
(* The stored sheet is a header plus rows of string cells.  A cell is a    *)
(* record [k, n, s]: k = "num" is the decimal string of the number n,      *)
(* k = "date" is the string "YYYY-MM-DD" of day n, k = "txt" is any other  *)
(* string s ("PARX", "abc", "nan", "").  In a DataFrame the player columns *)
(* hold numbers, the Date column holds Timestamps (k = "ts"), NaT          *)
(* (k = "nat"), date strings or NaN (k = "nan").                           *)
(***************************************************************************)
EXTENDS Integers, Sequences, FiniteSets, TLC

(* ---------------- bounds ---------------- *)
MaxSubmissions == 1     \* step-2 submissions of the single session under Spec
MaxRace == 2            \* step-2 submissions of the two sessions under SpecRace
MaxBet == 3             \* the payout rule is exercised with bets 1..MaxBet and 40
MaxStatRows == 3        \* stored records the statistics are computed over
MaxFlow == 2            \* step-2 submissions of the single session under SpecFlow

(* ---------------- global configuration ---------------- *)
DEFAULT_BET_AMOUNT == 40
TRACK_OPTIONS == <<"PARX", "TP", "DD", "GP", "PENN", "AQU", "SA", "LRL", "OP", "CT", "MHV">>
players == <<"Hans", "Rich", "Ralls">>
initial_balances == [p \in {"Hans", "Rich", "Ralls"} |->
                        CASE p = "Hans" -> 0 [] p = "Rich" -> 80 [] OTHER -> 0 - 80]

Range(f) == {f[i] : i \in DOMAIN f}
Roster == Range(players)
\* names a participants list can hold: the roster and one name outside it
Universe == Roster \cup {"JK"}

get_initial_balance(player) ==
    IF player \in DOMAIN initial_balances THEN initial_balances[player] ELSE 0

(* ---------------- payout rule ---------------- *)
calculate_result_noloss(participants, winner, bet_amount) ==
    LET n == Cardinality(participants)
        profit == IF n = 2 THEN bet_amount ELSE IF n = 3 THEN bet_amount * 2 ELSE 0
    IN  [p \in Roster \cup participants |->
            IF p \in participants /\ p = winner THEN profit ELSE 0]

calculate_result_flat(participants, winner, bet_amount) ==
    LET n == Cardinality(participants)
        profit == IF n >= 2 THEN bet_amount ELSE 0
    IN  [p \in Roster \cup participants |->
            IF p \in participants
            THEN IF p = winner THEN profit ELSE 0 - bet_amount
            ELSE 0]

calculate_result(participants, winner, bet_amount) ==
    LET n == Cardinality(participants)
        profit == IF n = 2 THEN bet_amount ELSE IF n = 3 THEN bet_amount * 2 ELSE 0
    IN  [p \in Roster \cup participants |->
            IF p \in participants
            THEN IF p = winner THEN profit ELSE 0 - bet_amount
            ELSE 0]

RECURSIVE SumOver(_, _)
SumOver(f, S) ==
    IF S = {} THEN 0
    ELSE LET x == CHOOSE y \in S : TRUE IN f[x] + SumOver(f, S \ {x})

(* ---------------- cells and DataFrame values ---------------- *)
Num(n) == [k |-> "num", n |-> n, s |-> ""]
Day(d) == [k |-> "date", n |-> d, s |-> ""]
Txt(str) == [k |-> "txt", n |-> 0, s |-> str]
Ts(d) == [k |-> "ts", n |-> d, s |-> ""]
NaT == [k |-> "nat", n |-> 0, s |-> ""]
NaN == [k |-> "nan", n |-> 0, s |-> ""]

\* pd.to_numeric(errors='coerce').fillna(0) on one cell
to_numeric(cell) == IF cell.k = "num" THEN cell.n ELSE 0

\* pd.to_datetime(errors='coerce') on one value
to_datetime(v) == IF v.k \in {"date", "ts"} THEN Ts(v.n) ELSE NaT

\* .dt.strftime("%Y-%m-%d") on one value: NaT gives NaN
strftime(v) == IF v.k = "ts" THEN Day(v.n) ELSE NaN

\* astype(str) on one non-numeric value
astype_str(v) ==
    CASE v.k = "nan" -> Txt("nan")
      [] v.k = "nat" -> Txt("NaT")
      [] v.k = "ts"  -> Day(v.n)
      [] OTHER       -> v

SeqToSet(q) == {q[i] : i \in DOMAIN q}

\* the elements of q that are not in the set S, in the order of q
RECURSIVE SeqMinus(_, _)
SeqMinus(q, S) ==
    IF q = <<>> THEN <<>>
    ELSE IF Head(q) \in S THEN SeqMinus(Tail(q), S)
         ELSE <<Head(q)>> \o SeqMinus(Tail(q), S)

RECURSIVE SumSeq(_)
SumSeq(q) == IF q = <<>> THEN 0 ELSE Head(q) + SumSeq(Tail(q))

(* ---------------- Google Sheets persistence ---------------- *)
EmptySheet == [header |-> <<>>, rows |-> <<>>]
FullHeader == <<"Date", "Track">> \o players
EmptyDF == [columns |-> FullHeader, rows |-> <<>>]

\* load_data() against the sheet sh; opened = FALSE when client.open raises.
\* error: st.error was called; raised: the exception left load_data
load_data_unguarded(sh, opened) ==
    IF ~opened THEN [df |-> EmptyDF, error |-> FALSE, raised |-> TRUE]
    ELSE IF sh.header = <<>> THEN [df |-> EmptyDF, error |-> FALSE, raised |-> FALSE]
    ELSE LET cols == sh.header \o SeqMinus(players, SeqToSet(sh.header))
             conv(r) == [c \in SeqToSet(cols) |->
                            IF c \in Roster
                            THEN IF c \in DOMAIN r THEN to_numeric(r[c]) ELSE 0
                            ELSE IF c = "Date" THEN to_datetime(r[c]) ELSE r[c]]
         IN  [df |-> [columns |-> cols,
                      rows |-> [i \in DOMAIN sh.rows |-> conv(sh.rows[i])]],
              error |-> FALSE, raised |-> FALSE]

load_data(sh, opened) ==
    IF ~opened THEN [df |-> EmptyDF, error |-> TRUE, raised |-> FALSE]
    ELSE IF sh.header = <<>> THEN [df |-> EmptyDF, error |-> FALSE, raised |-> FALSE]
    ELSE LET cols == sh.header \o SeqMinus(players, SeqToSet(sh.header))
             conv(r) == [c \in SeqToSet(cols) |->
                            IF c \in Roster
                            THEN IF c \in DOMAIN r THEN to_numeric(r[c]) ELSE 0
                            ELSE IF c = "Date" THEN to_datetime(r[c]) ELSE r[c]]
         IN  [df |-> [columns |-> cols,
                      rows |-> [i \in DOMAIN sh.rows |-> conv(sh.rows[i])]],
              error |-> FALSE, raised |-> FALSE]

\* the table save_data sends to the sheet: header row and astype(str) values
Serialize(df) ==
    LET ser(r) == [c \in SeqToSet(df.columns) |->
                      IF c \in Roster THEN Num(r[c])
                      ELSE IF c = "Date" THEN astype_str(strftime(to_datetime(r[c])))
                      ELSE astype_str(r[c])]
    IN  [header |-> df.columns, rows |-> [i \in DOMAIN df.rows |-> ser(df.rows[i])]]

\* save_data(df) against the sheet sh; opened = FALSE when client.open raises
save_data_append(df, sh, opened) ==
    IF ~opened THEN [sheet |-> sh, error |-> TRUE]
    ELSE [sheet |-> [header |-> df.columns,
                     rows |-> Append(sh.rows, Serialize(df).rows[Len(df.rows)])],
          error |-> FALSE]

save_data_clearfirst(df, sh, opened) ==
    IF ~opened THEN [sheet |-> EmptySheet, error |-> TRUE]
    ELSE [sheet |-> Serialize(df), error |-> FALSE]

save_data(df, sh, opened) ==
    IF ~opened THEN [sheet |-> sh, error |-> TRUE]
    ELSE [sheet |-> Serialize(df), error |-> FALSE]

\* pd.concat([df, pd.DataFrame([new_entry])], ignore_index=True)
concat(df, new_entry) ==
    LET cols == df.columns \o SeqMinus(FullHeader, SeqToSet(df.columns))
        widen(r) == [c \in SeqToSet(cols) |->
                        IF c \in DOMAIN r THEN r[c] ELSE NaN]
    IN  [columns |-> cols,
         rows |-> Append([i \in DOMAIN df.rows |-> widen(df.rows[i])], widen(new_entry))]

(* ---------------- balances ---------------- *)
\* balance_df.sort_values("Balance", ascending=False): the players by falling
\* balance, equal balances in roster order
RECURSIVE InsertDesc(_, _, _)
InsertDesc(q, x, bal) ==
    IF q = <<>> THEN <<x>>
    ELSE IF bal[Head(q)] >= bal[x] THEN <<Head(q)>> \o InsertDesc(Tail(q), x, bal)
         ELSE <<x>> \o q

RECURSIVE RankFrom(_, _)
RankFrom(q, bal) ==
    IF q = <<>> THEN <<>>
    ELSE InsertDesc(RankFrom(SubSeq(q, 1, Len(q) - 1), bal), q[Len(q)], bal)

compute_balances_noinit(df) ==
    [p \in Roster |-> SumSeq([i \in DOMAIN df.rows |-> df.rows[i][p]])]

compute_balances(df) ==
    [p \in Roster |->
        get_initial_balance(p) + SumSeq([i \in DOMAIN df.rows |-> df.rows[i][p]])]

(* ---------------- statistics ---------------- *)
\* df[df[p] != 0]: the rows of df in which player p has a non-zero outcome
df_player(df, p) == SelectSeq(df.rows, LAMBDA r : r[p] # 0)

\* section 1 of statistics_page, one player's row.  win_ratio is the number
\* ratio_num / ratio_den; "Win Ratio" shows it rounded to tenths of a percent
participation_allrows(df, p) ==
    LET total_contests == Len(df.rows)
        wins == Len(SelectSeq(df.rows, LAMBDA r : r[p] > 0))
        losses == Len(SelectSeq(df.rows, LAMBDA r : r[p] < 0))
    IN  [total_contests |-> total_contests, wins |-> wins, losses |-> losses,
         ratio_num |-> IF total_contests > 0 THEN wins * 100 ELSE 0,
         ratio_den |-> IF total_contests > 0 THEN total_contests ELSE 1,
         divided |-> total_contests > 0,
         tenths |-> IF total_contests > 0
                    THEN (wins * 2000 + total_contests) \div (2 * total_contests)
                    ELSE 0]

participation(df, p) ==
    LET total_contests == Len(df_player(df, p))
        wins == Len(SelectSeq(df_player(df, p), LAMBDA r : r[p] > 0))
        losses == Len(SelectSeq(df_player(df, p), LAMBDA r : r[p] < 0))
    IN  [total_contests |-> total_contests, wins |-> wins, losses |-> losses,
         ratio_num |-> IF total_contests > 0 THEN wins * 100 ELSE 0,
         ratio_den |-> IF total_contests > 0 THEN total_contests ELSE 1,
         divided |-> total_contests > 0,
         tenths |-> IF total_contests > 0
                    THEN (wins * 2000 + total_contests) \div (2 * total_contests)
                    ELSE 0]

\* the days of df["Date"].dt.date, the rows whose date is NaT left out
RowDays(df) ==
    {to_datetime(df.rows[i]["Date"]).n :
        i \in {j \in DOMAIN df.rows : to_datetime(df.rows[j]["Date"]).k = "ts"}}

\* ascending order of a set of days
RECURSIVE Ascending(_)
Ascending(S) ==
    IF S = {} THEN <<>>
    ELSE LET m == CHOOSE x \in S : \A y \in S : x <= y
         IN  <<m>> \o Ascending(S \ {m})

\* the group keys of df.groupby(df["Date"].dt.date): the days, ascending
RECURSIVE group_keys_appearance(_)
group_keys_appearance(df) ==
    IF df.rows = <<>> THEN <<>>
    ELSE LET front == [df EXCEPT !.rows = SubSeq(df.rows, 1, Len(df.rows) - 1)]
             keys == group_keys_appearance(front)
             v == to_datetime(df.rows[Len(df.rows)]["Date"])
         IN  IF v.k = "ts" /\ v.n \notin SeqToSet(keys) THEN Append(keys, v.n) ELSE keys

group_keys(df) == Ascending(RowDays(df))

\* daily_sums: per group key, the sum of p's outcomes on that day
daily_sums(df, p) ==
    LET keys == group_keys(df)
    IN  [i \in DOMAIN keys |->
            [day |-> keys[i],
             sum |-> SumSeq([j \in DOMAIN df.rows |->
                               IF to_datetime(df.rows[j]["Date"]) = Ts(keys[i])
                               THEN df.rows[j][p] ELSE 0])]]

\* Series.max()
SeriesMax(q) == CHOOSE m \in {q[i].sum : i \in DOMAIN q} :
                    \A i \in DOMAIN q : q[i].sum <= m

\* Series.idxmax(): the label of the first row that holds the maximum
idxmax(q) ==
    LET first == CHOOSE i \in DOMAIN q :
                    /\ q[i].sum = SeriesMax(q)
                    /\ \A j \in 1..(i - 1) : q[j].sum # SeriesMax(q)
    IN  q[first].day

\* section 2 of statistics_page, one player's row; best_day_str is "N/A" or
\* the month and day of best_day
financial(df, p) ==
    LET sums == daily_sums(df, p)
        won == SelectSeq(df_player(df, p), LAMBDA r : r[p] > 0)
        lost == SelectSeq(df_player(df, p), LAMBDA r : r[p] < 0)
        neg == SumSeq([i \in DOMAIN lost |-> lost[i][p]])
    IN  [total_bet |-> Len(df_player(df, p)) * DEFAULT_BET_AMOUNT,
         winnings |-> SumSeq([i \in DOMAIN won |-> won[i][p]]),
         losses_sum |-> IF neg < 0 THEN 0 - neg ELSE neg,
         net |-> SumSeq([i \in DOMAIN df.rows |-> df.rows[i][p]]),
         best_day_value |-> IF sums # <<>> THEN SeriesMax(sums) ELSE 0,
         best_day |-> IF sums # <<>> THEN idxmax(sums) ELSE 0,
         best_day_str |-> IF sums # <<>> THEN "Mon D" ELSE "N/A"]

NoStats == [shown |-> FALSE,
            participation |-> [p \in Roster |-> participation(EmptyDF, p)],
            financial |-> [p \in Roster |-> financial(EmptyDF, p)]]

(* ---------------- messages shown by one script run ---------------- *)
NoData == [lvl |-> "write",
           text |-> "No contest data available to display statistics.",
           from |-> "statistics_page"]
ErrOpen(fn) == [lvl |-> "error", text |-> "Error opening Google Sheet", from |-> fn]
ErrTwo == [lvl |-> "error", text |-> "Please select at least two participants.",
           from |-> "data_entry_page"]
OkConfirmed == [lvl |-> "success",
                text |-> "Participants and Bet Amount confirmed. Now select the winner.",
                from |-> "data_entry_page"]
OkSheets == [lvl |-> "success", text |-> "Data updated in Google Sheets!",
             from |-> "save_data"]
OkUpdated == [lvl |-> "success", text |-> "Data updated successfully!",
              from |-> "data_entry_page"]
NoHistory == [lvl |-> "write", text |-> "No contest history available.",
              from |-> "home_page"]

(* ---------------- inputs ---------------- *)
Sessions == {1, 2}
Solo == {1}
Today == 1
\* the date, track and bet amount a step-1 form is submitted with: the form's
\* defaults, or another day, another track and the smallest bet
FormInputs == {[date |-> Today, trk |-> TRACK_OPTIONS[1], bet |-> DEFAULT_BET_AMOUNT],
               [date |-> Today + 1, trk |-> TRACK_OPTIONS[6], bet |-> 1]}
\* the participants chosen in the runs that also view the home page
HomeSelections == {{"Hans", "Rich"}, {"Hans", "Rich", "Ralls"}}
\* the participants the two racing sessions choose
RaceSelections == {{"Hans", "Rich"}}
CalcBets == (1..MaxBet) \cup {DEFAULT_BET_AMOUNT}

\* tables the sheet can hold when the application starts
GoodRow == [c \in SeqToSet(FullHeader) |->
              CASE c = "Date" -> Day(1) [] c = "Track" -> Txt("PARX")
                [] c = "Hans" -> Num(40) [] c = "Rich" -> Num(0 - 40) [] OTHER -> Num(0)]
BadRow == [c \in SeqToSet(FullHeader) |->
              CASE c = "Date" -> Txt("n/a") [] c = "Track" -> Txt("PARX")
                [] c = "Hans" -> Txt("abc") [] c = "Rich" -> Num(0 - 40) [] OTHER -> Txt("")]
ShortHeader == <<"Date", "Track", "Hans", "Rich">>
ShortRow == [c \in SeqToSet(ShortHeader) |-> GoodRow[c]]
SheetInit ==
    { EmptySheet,
      [header |-> FullHeader, rows |-> <<>>],
      [header |-> FullHeader, rows |-> <<GoodRow>>],
      [header |-> FullHeader, rows |-> <<BadRow>>],
      [header |-> ShortHeader, rows |-> <<ShortRow>>] }

(* ---------------- state ---------------- *)
VARIABLES
    sheet,                   \* the MiniLeagueData sheet: header and rows of cells
    current_page,            \* st.session_state.current_page, per session
    participants_confirmed,  \* st.session_state['participants_confirmed']
    participants,            \* st.session_state['participants']
    contest_date,            \* st.session_state['contest_date']
    track,                   \* st.session_state['track']
    bet_amount,              \* st.session_state['bet_amount']
    pc,                      \* "idle", or "saving": between load_data and save_data
    pending,                 \* the script run's local df while pc = "saving"
    msgs,                    \* what the session's last script run displayed
    shown,                   \* the balances table of the session's last run
    calc,                    \* the last invocation of calculate_result
    log,                     \* history: the loads and saves of the submissions
    stats                    \* the tables of the last statistics_page run

vars == <<sheet, current_page, participants_confirmed, participants, contest_date,
          track, bet_amount, pc, pending, msgs, shown, calc, log, stats>>

form == <<participants_confirmed, participants, contest_date, track, bet_amount>>

NoDF == [columns |-> <<>>, rows |-> <<>>]
\* run: "home" when the session's last script run was home_page; opened: whether
\* the first load_data of that run opened the sheet
NotShown == [run |-> "none", opened |-> FALSE, rendered |-> FALSE,
             balances |-> [p \in Roster |-> 0], rank |-> <<>>, history |-> 0]
NoCalc == [called |-> FALSE, participants |-> {}, winner |-> "", bet_amount |-> 0,
           result |-> [p \in Roster |-> 0]]

Init ==
    /\ sheet \in SheetInit
    /\ current_page = [s \in Sessions |-> "Home"]
    /\ participants_confirmed = [s \in Sessions |-> FALSE]
    /\ participants = [s \in Sessions |-> {}]
    /\ contest_date = [s \in Sessions |-> Today]
    /\ track = [s \in Sessions |-> TRACK_OPTIONS[1]]
    /\ bet_amount = [s \in Sessions |-> DEFAULT_BET_AMOUNT]
    /\ pc = [s \in Sessions |-> "idle"]
    /\ pending = [s \in Sessions |-> NoDF]
    /\ msgs = [s \in Sessions |-> <<>>]
    /\ shown = [s \in Sessions |-> NotShown]
    /\ calc = NoCalc
    /\ log = <<>>
    /\ stats = NoStats

(* ---------------- data entry: step 1 ---------------- *)
\* the validation of the step-1 form: TRUE when the submission is rejected
rejects_one(selected) == selected = {} \/ Cardinality(selected) < 1

rejects(selected) == selected = {} \/ Cardinality(selected) < 2

\* "Confirm Participants" with the form's four inputs
Step1(s, selected, date, trk, bet) ==
    /\ pc[s] = "idle"
    /\ current_page[s] = "Data Entry"
    /\ IF rejects(selected)
       THEN /\ msgs' = [msgs EXCEPT ![s] = <<ErrTwo>>]
            /\ UNCHANGED form
       ELSE /\ participants_confirmed' = [participants_confirmed EXCEPT ![s] = TRUE]
            /\ participants' = [participants EXCEPT ![s] = selected]
            /\ contest_date' = [contest_date EXCEPT ![s] = date]
            /\ track' = [track EXCEPT ![s] = trk]
            /\ bet_amount' = [bet_amount EXCEPT ![s] = bet]
            /\ msgs' = [msgs EXCEPT ![s] = <<OkConfirmed>>]
    /\ shown' = [shown EXCEPT ![s] = NotShown]
    /\ UNCHANGED <<sheet, current_page, pc, pending, calc, log, stats>>

(* ---------------- data entry: step 2 ---------------- *)
Exc == [lvl |-> "exception", text |-> "uncaught exception", from |-> "load_data"]

\* new_entry of data_entry_page: the row built from the form and the result
NewEntry(s, result) ==
    [c \in SeqToSet(FullHeader) |->
        CASE c = "Date"  -> Day(contest_date[s])
          [] c = "Track" -> Txt(track[s])
          [] OTHER       -> IF c \in DOMAIN result THEN result[c] ELSE 0]

\* the row of the sheet a saved new_entry becomes
EntryRow(e) == Serialize([columns |-> FullHeader, rows |-> <<e>>]).rows[1]

\* "Submit Contest Data", up to and including load_data and pd.concat; max
\* caps the number of submissions
Step2Load(s, winner, opened, max) ==
    /\ Len(log) < 2 * max
    /\ pc[s] = "idle"
    /\ current_page[s] = "Data Entry"
    /\ participants_confirmed[s]
    /\ winner \in participants[s]
    /\ LET result == calculate_result(participants[s], winner, bet_amount[s])
           new_entry == NewEntry(s, result)
           ld == load_data(sheet, opened)
       IN  /\ calc' = [called |-> TRUE, participants |-> participants[s],
                       winner |-> winner, bet_amount |-> bet_amount[s],
                       result |-> result]
           /\ IF ld.raised
              THEN /\ msgs' = [msgs EXCEPT ![s] = <<Exc>>]
                   /\ UNCHANGED <<pc, pending, log>>
              ELSE /\ msgs' = [msgs EXCEPT ![s] =
                                 IF ld.error THEN <<ErrOpen("load_data")>> ELSE <<>>]
                   /\ pending' = [pending EXCEPT ![s] = concat(ld.df, new_entry)]
                   /\ pc' = [pc EXCEPT ![s] = "saving"]
                   /\ log' = Append(log, [s |-> s, ev |-> "load", ok |-> opened,
                                          entry |-> new_entry])
    /\ shown' = [shown EXCEPT ![s] = NotShown]
    /\ UNCHANGED <<sheet, current_page, form, stats>>

\* the last statement of the step-2 branch: the value participants_confirmed
\* gets once save_data has returned; saved = FALSE when save_data reported an error
reset_confirmed_on_success(saved) == ~saved

reset_confirmed(saved) == FALSE

\* the rest of the submission: save_data, the messages, the reset of the flag
Step2Save(s, opened) ==
    /\ pc[s] = "saving"
    /\ LET sv == save_data(pending[s], sheet, opened)
       IN  /\ sheet' = sv.sheet
           /\ msgs' = [msgs EXCEPT ![s] =
                         msgs[s] \o (IF sv.error THEN <<ErrOpen("save_data")>>
                                     ELSE <<OkSheets>>) \o <<OkUpdated>>]
           /\ log' = Append(log, [s |-> s, ev |-> "save", ok |-> opened,
                                  entry |-> pending[s].rows[Len(pending[s].rows)]])
    /\ participants_confirmed' =
           [participants_confirmed EXCEPT ![s] = reset_confirmed(opened)]
    /\ pc' = [pc EXCEPT ![s] = "idle"]
    /\ pending' = [pending EXCEPT ![s] = NoDF]
    /\ UNCHANGED <<current_page, participants, contest_date, track, bet_amount, stats,
                   shown, calc>>

\* "Submit Contest Data" on the step-2 form a finished submission left on the
\* screen: the flag is false, the script run does not build the form and no
\* submission is processed
Step2Stale(s) ==
    /\ pc[s] = "idle"
    /\ current_page[s] = "Data Entry"
    /\ ~participants_confirmed[s]
    /\ msgs' = [msgs EXCEPT ![s] = <<>>]
    /\ shown' = [shown EXCEPT ![s] = NotShown]
    /\ UNCHANGED <<sheet, current_page, form, pc, pending, calc, log, stats>>

(* ---------------- pages ---------------- *)
\* the sidebar's "Data Entry" button: the page renders its forms
GoDataEntry(s) ==
    /\ pc[s] = "idle"
    /\ current_page' = [current_page EXCEPT ![s] = "Data Entry"]
    /\ msgs' = [msgs EXCEPT ![s] = <<>>]
    /\ shown' = [shown EXCEPT ![s] = NotShown]
    /\ UNCHANGED <<sheet, form, pc, pending, calc, log, stats>>

\* home_page: the balances table, then the contest history from a second load
Home(s, opened1, opened2) ==
    /\ pc[s] = "idle"
    /\ current_page' = [current_page EXCEPT ![s] = "Home"]
    /\ LET ld == load_data(sheet, opened1)
           df_all == load_data(sheet, opened2)
           e1 == IF ld.error THEN <<ErrOpen("load_data")>> ELSE <<>>
           e2 == IF df_all.error THEN <<ErrOpen("load_data")>> ELSE <<>>
       IN  IF ld.raised
           THEN /\ msgs' = [msgs EXCEPT ![s] = <<Exc>>]
                /\ shown' = [shown EXCEPT ![s] = [NotShown EXCEPT !.run = "home"]]
           ELSE IF df_all.raised
           THEN /\ msgs' = [msgs EXCEPT ![s] = e1 \o <<Exc>>]
                /\ shown' = [shown EXCEPT ![s] =
                               [run |-> "home", opened |-> opened1, rendered |-> TRUE,
                                balances |-> compute_balances(ld.df),
                                rank |-> RankFrom(players, compute_balances(ld.df)),
                                history |-> 0]]
           ELSE /\ msgs' = [msgs EXCEPT ![s] =
                              e1 \o e2 \o (IF df_all.df.rows = <<>> THEN <<NoHistory>>
                                           ELSE <<>>)]
                /\ shown' = [shown EXCEPT ![s] =
                               [run |-> "home", opened |-> opened1, rendered |-> TRUE,
                                balances |-> compute_balances(ld.df),
                                rank |-> RankFrom(players, compute_balances(ld.df)),
                                history |-> Len(df_all.df.rows)]]
    /\ UNCHANGED <<sheet, form, pc, pending, calc, log, stats>>

\* one session on the data-entry page; every choice of participants
Next ==
    \/ \E s \in Solo, selected \in SUBSET Roster, in \in FormInputs :
          Step1(s, selected, in.date, in.trk, in.bet)
    \/ \E s \in Solo, winner \in Roster, opened \in BOOLEAN :
          Step2Load(s, winner, opened, MaxSubmissions)
    \/ \E s \in Solo, opened \in BOOLEAN : Step2Save(s, opened)
    \/ \E s \in Solo : GoDataEntry(s)

Spec == Init /\ [][Next]_vars

\* one session that enters contests and views the home page
NextHome ==
    \/ \E s \in Solo, selected \in HomeSelections, in \in FormInputs :
          Step1(s, selected, in.date, in.trk, in.bet)
    \/ \E s \in Solo, winner \in Roster, opened \in BOOLEAN :
          Step2Load(s, winner, opened, MaxSubmissions)
    \/ \E s \in Solo, opened \in BOOLEAN : Step2Save(s, opened)
    \/ \E s \in Solo : GoDataEntry(s)
    \/ \E s \in Solo, opened1 \in BOOLEAN, opened2 \in BOOLEAN :
          Home(s, opened1, opened2)

SpecHome == Init /\ [][NextHome]_vars

\* two sessions on the data-entry page, interleaved at the calls to the sheet;
\* every load opens the sheet, a save may fail to
NextRace ==
    \/ \E s \in Sessions, selected \in RaceSelections :
          Step1(s, selected, Today, TRACK_OPTIONS[1], DEFAULT_BET_AMOUNT)
    \/ \E s \in Sessions, winner \in Roster :
          Step2Load(s, winner, TRUE, MaxRace)
    \/ \E s \in Sessions, opened \in BOOLEAN : Step2Save(s, opened)
    \/ \E s \in Sessions : GoDataEntry(s)

InitRace == Init /\ sheet = [header |-> FullHeader, rows |-> <<GoodRow>>]

SpecRace == InitRace /\ [][NextRace]_vars

\* one session that goes through the two-step flow several times: selections
\* step 1 rejects and one it accepts, loads and saves that may fail to open
FlowSelections == {{}, {"Hans"}, {"Hans", "Rich"}}

NextFlow ==
    \/ \E s \in Solo, selected \in FlowSelections, in \in FormInputs :
          Step1(s, selected, in.date, in.trk, in.bet)
    \/ \E s \in Solo, winner \in Roster, opened \in BOOLEAN :
          Step2Load(s, winner, opened, MaxFlow)
    \/ \E s \in Solo, opened \in BOOLEAN : Step2Save(s, opened)
    \/ \E s \in Solo : Step2Stale(s)
    \/ \E s \in Solo : GoDataEntry(s)

InitFlow == Init /\ sheet = [header |-> FullHeader, rows |-> <<>>]

SpecFlow == InitFlow /\ [][NextFlow]_vars

(* ---------------- the statistics page ---------------- *)
\* statistics_page: load_data, then the participation and the financial table
Statistics(s, opened) ==
    /\ pc[s] = "idle"
    /\ current_page' = [current_page EXCEPT ![s] = "Statistics"]
    /\ LET ld == load_data(sheet, opened)
           e1 == IF ld.error THEN <<ErrOpen("load_data")>> ELSE <<>>
       IN  IF ld.raised
           THEN /\ msgs' = [msgs EXCEPT ![s] = <<Exc>>]
                /\ stats' = NoStats
           ELSE IF ld.df.rows = <<>>
           THEN /\ msgs' = [msgs EXCEPT ![s] = e1 \o <<NoData>>]
                /\ stats' = NoStats
           ELSE /\ msgs' = [msgs EXCEPT ![s] = e1]
                /\ stats' = [shown |-> TRUE,
                             participation |-> [p \in Roster |-> participation(ld.df, p)],
                             financial |-> [p \in Roster |-> financial(ld.df, p)]]
    /\ shown' = [shown EXCEPT ![s] = NotShown]
    /\ UNCHANGED <<sheet, form, pc, pending, calc, log>>

\* the stored records the statistics are computed over: two-way and three-way
\* contests at the default bet, on two days or with a date that does not parse
StatOutcomes ==
    { calculate_result({"Hans", "Rich"}, "Hans", DEFAULT_BET_AMOUNT),
      calculate_result({"Hans", "Rich"}, "Rich", DEFAULT_BET_AMOUNT),
      calculate_result({"Hans", "Rich", "Ralls"}, "Hans", DEFAULT_BET_AMOUNT),
      calculate_result({"Hans", "Rich", "Ralls"}, "Rich", DEFAULT_BET_AMOUNT) }
StatDates == {Day(Today), Day(Today + 1), Txt("n/a")}
StatRows ==
    { [c \in SeqToSet(FullHeader) |->
          CASE c = "Date" -> d [] c = "Track" -> Txt(TRACK_OPTIONS[1])
            [] OTHER -> Num(o[c])] : d \in StatDates, o \in StatOutcomes }
RECURSIVE SeqsUpTo(_, _)
SeqsUpTo(S, n) ==
    IF n = 0 THEN {<<>>}
    ELSE SeqsUpTo(S, n - 1) \cup
         {Append(q, x) : q \in {r \in SeqsUpTo(S, n - 1) : Len(r) = n - 1}, x \in S}
StatSheets == {[header |-> FullHeader, rows |-> q] : q \in SeqsUpTo(StatRows, MaxStatRows)}

InitStats ==
    /\ sheet \in StatSheets
    /\ current_page = [s \in Sessions |-> "Home"]
    /\ participants_confirmed = [s \in Sessions |-> FALSE]
    /\ participants = [s \in Sessions |-> {}]
    /\ contest_date = [s \in Sessions |-> Today]
    /\ track = [s \in Sessions |-> TRACK_OPTIONS[1]]
    /\ bet_amount = [s \in Sessions |-> DEFAULT_BET_AMOUNT]
    /\ pc = [s \in Sessions |-> "idle"]
    /\ pending = [s \in Sessions |-> NoDF]
    /\ msgs = [s \in Sessions |-> <<>>]
    /\ shown = [s \in Sessions |-> NotShown]
    /\ calc = NoCalc
    /\ log = <<>>
    /\ stats = NoStats

NextStats == \E s \in Solo, opened \in BOOLEAN : Statistics(s, opened)

SpecStats == InitStats /\ [][NextStats]_vars

(* ---------------- the payout rule on its own ---------------- *)
\* one call calculate_result(participants, winner, bet_amount)
CalcCall(selected, winner, bet) ==
    /\ calc' = [called |-> TRUE, participants |-> selected, winner |-> winner,
                bet_amount |-> bet, result |-> calculate_result(selected, winner, bet)]
    /\ UNCHANGED <<sheet, current_page, form, pc, pending, msgs, shown, log, stats>>

NextCalc ==
    \E selected \in SUBSET Universe, winner \in Universe, bet \in CalcBets :
        CalcCall(selected, winner, bet)

SpecCalc == Init /\ [][NextCalc]_vars

(* ======================= claims ======================= *)

\* C1: with the winner among the participants, two participants give the
\* winner +bet and the other one -bet, three give the winner +2*bet and the
\* other two -bet each, and a roster player who is not a participant gets 0.
C1_PayoutTwoThree ==
    (calc.called /\ calc.winner \in calc.participants
        /\ Cardinality(calc.participants) \in {2, 3})
    => /\ calc.result[calc.winner] =
             (Cardinality(calc.participants) - 1) * calc.bet_amount
       /\ \A p \in calc.participants \ {calc.winner} :
             calc.result[p] = 0 - calc.bet_amount
       /\ \A p \in Roster \ calc.participants : calc.result[p] = 0

\* a three-way contest at bet 40 was paid out: {A: 80, B: -40, C: -40}
C1_Witness ==
    /\ calc.called
    /\ calc.participants = Roster
    /\ calc.winner = "Hans"
    /\ calc.bet_amount = 40
    /\ calc.result = [p \in Roster |-> IF p = "Hans" THEN 80 ELSE 0 - 40]

\* C2: for 2 or 3 participants and a winner among them the returned outcomes
\* sum to 0, and with the participants taken from the roster they sum to 0
\* over the roster players.
C2_ZeroSum ==
    (calc.called /\ calc.winner \in calc.participants
        /\ Cardinality(calc.participants) \in {2, 3})
    => /\ SumOver(calc.result, DOMAIN calc.result) = 0
       /\ calc.participants \subseteq Roster => SumOver(calc.result, Roster) = 0

\* a two-way contest among roster players was paid out with a non-zero stake
C2_Witness ==
    /\ calc.called
    /\ calc.participants = {"Rich", "Ralls"}
    /\ calc.winner = "Ralls"
    /\ calc.bet_amount = MaxBet
    /\ calc.result["Ralls"] = MaxBet
    /\ calc.result["Rich"] = 0 - MaxBet

\* C3: for a participant set of any size other than 2 or 3 every outcome is 0.
C3_OtherSizesZero ==
    (calc.called /\ calc.winner \in calc.participants
        /\ Cardinality(calc.participants) \notin {2, 3})
    => \A p \in DOMAIN calc.result : calc.result[p] = 0

\* the step of session s that ends a step-2 submission (save_data has returned)
SaveStep(s) == pc[s] = "saving" /\ pc'[s] = "idle"
\* ... and save_data did write the table
SavedStep(s) == SaveStep(s) /\ log'[Len(log')].ok
\* ... and save_data failed to open the sheet
SaveFailedStep(s) == SaveStep(s) /\ ~log'[Len(log')].ok

LastRow(sh) == sh.rows[Len(sh.rows)]
Count(q, m) == Cardinality({i \in DOMAIN q : q[i] = m})

\* C4: in the record a submission appends, a roster player's stored outcome
\* is non-zero exactly when the player is one of the confirmed participants.
C4_NonZeroIffParticipant ==
    [][\A s \in Sessions : SavedStep(s) =>
          \A p \in Roster :
             (to_numeric(LastRow(sheet')[p]) # 0) <=> (p \in participants[s])]_vars

\* a two-way record at bet 1 was appended: Ralls, who did not take part, has 0
C4_Witness ==
    /\ log # <<>>
    /\ log[Len(log)].ev = "save" /\ log[Len(log)].ok
    /\ participants[1] = {"Hans", "Rich"}
    /\ bet_amount[1] = 1
    /\ sheet.rows # <<>>
    /\ LastRow(sheet)["Hans"] = Num(0 - 1)
    /\ LastRow(sheet)["Rich"] = Num(1)
    /\ LastRow(sheet)["Ralls"] = Num(0)

\* the sum of player p's outcome over the stored records: a cell that is no
\* number, and a missing column, count as 0
StoredSum(sh, p) ==
    SumSeq([i \in DOMAIN sh.rows |->
              IF p \in DOMAIN sh.rows[i] /\ sh.rows[i][p].k = "num"
              THEN sh.rows[i][p].n ELSE 0])

\* C5: the balances computed from the loaded table are the initial balances
\* plus each player's stored outcomes; exactly the initial balances when no
\* record is stored; a player without a column contributes 0.
C5_Balances ==
    \A s \in Sessions :
        (shown[s].run = "home" /\ shown[s].rendered /\ shown[s].opened) =>
            /\ \A p \in Roster :
                  shown[s].balances[p] = initial_balances[p] + StoredSum(sheet, p)
            /\ sheet.rows = <<>> =>
                  shown[s].balances = [p \in Roster |->
                      CASE p = "Hans" -> 0 [] p = "Rich" -> 80 [] OTHER -> 0 - 80]

\* the home page shows the balances over a stored record and a submitted one
C5_Witness ==
    /\ shown[1].run = "home" /\ shown[1].rendered /\ shown[1].opened
    /\ Len(sheet.rows) = 2
    /\ Len(log) = 2 /\ log[1].ok /\ log[2].ok
    /\ shown[1].balances["Hans"] = 0 + 40 + 80
    /\ shown[1].balances["Ralls"] = 0 - 120

\* C6: the table a submission writes is the table stored before it, same
\* content and order, followed by exactly the one new record.
C6_HistoryKept ==
    [][\A s \in Sessions : SavedStep(s) =>
          sheet'.rows = Append(sheet.rows, EntryRow(log'[Len(log')].entry))]_vars

\* C7: a successful save replaces the stored table by the table the saving
\* session loaded plus its one record, whatever was stored in between, and
\* the submission shows the two success messages and no error: nothing
\* detects that records saved since the load are dropped.
C7_LaterSaveOverwrites ==
    [][\A s \in Sessions : (SavedStep(s) /\ msgs[s] = <<>>) =>
          /\ Len(sheet'.rows) = Len(pending[s].rows)
          /\ \A i \in 1..(Len(pending[s].rows) - 1) :
                \A p \in Roster : to_numeric(sheet'.rows[i][p]) = pending[s].rows[i][p]
          /\ LastRow(sheet') = EntryRow(log'[Len(log')].entry)
          /\ msgs'[s] = <<OkSheets, OkUpdated>>]_vars

\* the lost update: both sessions loaded before either saved, both saves
\* succeeded without an error, and the table holds the later record only
C7_Witness ==
    /\ Len(log) = 4
    /\ log[1].ev = "load" /\ log[2].ev = "load"
    /\ log[3].ev = "save" /\ log[4].ev = "save"
    /\ \A i \in 1..4 : log[i].ok
    /\ log[1].s = log[3].s /\ log[2].s = log[4].s /\ log[1].s # log[2].s
    /\ log[3].entry # log[4].entry
    /\ \A s \in Sessions : msgs[s] = <<OkSheets, OkUpdated>>
    /\ sheet.rows = <<GoodRow, EntryRow(log[4].entry)>>
    /\ EntryRow(log[3].entry) # GoodRow

\* C8: calculate_result is only invoked with at least 2 participants and a
\* winner among them, and a rejected step-1 submission shows the error and
\* computes no outcome, stores nothing and leaves the form state alone.
C8_EngineGuarded ==
    /\ [](calc.called =>
            /\ Cardinality(calc.participants) >= 2
            /\ calc.winner \in calc.participants)
    /\ [][\A s \in Sessions :
            (msgs'[s] # msgs[s] /\ ErrTwo \in SeqToSet(msgs'[s])) =>
                /\ calc' = calc
                /\ sheet' = sheet
                /\ log' = log
                /\ pc'[s] = "idle"]_vars

\* after a contest was submitted, a step-1 submission with one participant
\* has just been rejected
C8_Witness ==
    /\ calc.called
    /\ Len(log) = 2
    /\ msgs[1] = <<ErrTwo>>

SheetDays(sh) == {sh.rows[i]["Date"].n :
                     i \in {j \in DOMAIN sh.rows : sh.rows[j]["Date"].k = "date"}}

\* the sum of player p's stored outcomes on day d
DaySum(sh, p, d) ==
    SumSeq([i \in DOMAIN sh.rows |->
              IF sh.rows[i]["Date"] = Day(d) /\ sh.rows[i][p].k = "num"
              THEN sh.rows[i][p].n ELSE 0])

\* C11: a player's highest daily win is the largest per-day sum of the
\* player's outcomes, its day is the earliest day with that sum, records
\* whose date does not parse belong to no day, and without any day the value
\* is 0 and the day "N/A".
C11_HighestDailyWin ==
    stats.shown =>
        \A p \in Roster :
            LET f == stats.financial[p]
                days == SheetDays(sheet)
            IN  IF days = {}
                THEN f.best_day_value = 0 /\ f.best_day_str = "N/A"
                ELSE /\ f.best_day_str # "N/A"
                     /\ f.best_day \in days
                     /\ DaySum(sheet, p, f.best_day) = f.best_day_value
                     /\ \A d \in days : DaySum(sheet, p, d) <= f.best_day_value
                     /\ \A d \in days :
                           d < f.best_day => DaySum(sheet, p, d) < f.best_day_value

\* Hans wins 40 twice on one day and 80 in a record whose date does not parse:
\* the highest daily win is the day's 80, above every dated single record
C11_Witness ==
    /\ stats.shown
    /\ Len(sheet.rows) = 3
    /\ sheet.rows[1]["Date"] = Txt("n/a") /\ sheet.rows[1]["Hans"] = Num(80)
    /\ sheet.rows[2]["Date"] = Day(Today + 1) /\ sheet.rows[2]["Hans"] = Num(40)
    /\ sheet.rows[3]["Date"] = Day(Today + 1) /\ sheet.rows[3]["Hans"] = Num(40)
    /\ stats.financial["Hans"].best_day_value = 80
    /\ stats.financial["Hans"].best_day = Today + 1

\* player p's outcome in each stored record
StoredOutcomes(sh, p) == [i \in DOMAIN sh.rows |-> to_numeric(sh.rows[i][p])]

\* C12: total_contests counts the records with a non-zero outcome, wins plus
\* losses is total_contests, win_ratio is wins / total_contests * 100 within
\* 0..100, and it is 0, with no division, for a player in no record.
C12_WinRatio ==
    stats.shown =>
        \A p \in Roster :
            LET r == stats.participation[p]
            IN  /\ r.total_contests =
                      Cardinality({i \in DOMAIN sheet.rows :
                                      StoredOutcomes(sheet, p)[i] # 0})
                /\ r.wins + r.losses = r.total_contests
                /\ r.wins = Cardinality({i \in DOMAIN sheet.rows : StoredOutcomes(sheet, p)[i] > 0})
                /\ r.total_contests > 0 =>
                      /\ r.divided
                      /\ r.ratio_num = r.wins * 100
                      /\ r.ratio_den = r.total_contests
                /\ 0 <= r.ratio_num /\ r.ratio_num <= 100 * r.ratio_den
                /\ r.total_contests = 0 => (~r.divided /\ r.ratio_num = 0)

\* over three two-way records Hans has 2 wins in 3 contests and Ralls, who
\* is in none of them, has the ratio 0
C12_Witness ==
    /\ stats.shown
    /\ Len(sheet.rows) = 3
    /\ stats.participation["Hans"].total_contests = 3
    /\ stats.participation["Hans"].wins = 2
    /\ stats.participation["Hans"].tenths = 667
    /\ stats.participation["Ralls"].total_contests = 0
    /\ stats.participation["Ralls"].ratio_num = 0
    /\ ~stats.participation["Ralls"].divided

\* the fields of session s the step-1 form fills in
FormOf(s) == <<participants_confirmed[s], participants[s], contest_date[s],
               track[s], bet_amount[s]>>

====
